---- MODULE Spec2Model ----
(***************************************************************************)
(* Donation / campaign reconciliation of the nonprofit CRM server.         *)
(*                                                                         *)
(* The handlers createDonation, updateDonation and deleteDonation issue a  *)
(* sequence of awaited storage statements against the donors, campaigns    *)
(* and donations tables.  No statement sequence is wrapped in a            *)
(* transaction, so every awaited statement is one atomic step and the      *)
(* steps of concurrent requests interleave.                                *)
(*                                                                         *)
(* Money: request amounts are JavaScript numbers, written to the store as  *)
(* decimal strings.  The columns are numeric(12,2), so the store rounds    *)
(* every written value to two decimals (half away from zero).  Request     *)
(* amounts are modelled in mils (1/1000), stored amounts in cents.         *)
(***************************************************************************)
EXTENDS Integers, FiniteSets, Sequences, TLC

(* ----------------------------- bounds ---------------------------------- *)
MaxCalls == 3          \* handler calls started in one behaviour
MaxDonations == 2      \* donation rows ever inserted (serial ids 1..MaxDonations)

(* --------------------------- value domains ----------------------------- *)
Null == -1             \* JavaScript null / SQL NULL
Undefined == -2        \* key absent from the patch
NoStatus == "undefined"
NoText == "undefined"  \* a text key absent from the patch

\* request slots: at most two handler calls are in flight at a time
Procs == {1, 2}
\* the slot of the client that sends one request at a time
SeqProc == CHOOSE p \in Procs : \A q \in Procs : p <= q

Tenants == {"T1", "T2"}
Statuses == {"Pledged", "Received", "Cancelled", "Refunded"}

\* request amounts in mils: 0.005 and 0.020 (z.number().positive())
Amounts == {5, 20}

\* rows of the donors table: id -> tenant id
Donors == (1 :> "T1") @@ (2 :> "T2")

\* tenant ids of the rows of the campaigns table
CampaignTenants == (1 :> "T1") @@ (2 :> "T1") @@ (3 :> "T2")

DonationIdInputs == 1..MaxDonations

\* tenant ids of the rows of the volunteers, custom_data and organizations
\* tables
VolunteerTenants == (1 :> "T1") @@ (2 :> "T2")
CustomDataTenants == (1 :> "T1") @@ (2 :> "T2")
OrganizationTenants == (1 :> "T1") @@ (2 :> "T2")

\* rows of the grants table; names are sequences of lower-case letters
GrantRows ==
  (1 :> [tenantId |-> "T1", organizationId |-> 1, grantName |-> <<"a", "b">>])
  @@ (2 :> [tenantId |-> "T1", organizationId |-> 1, grantName |-> <<"b">>])
  @@ (3 :> [tenantId |-> "T2", organizationId |-> 2, grantName |-> <<"a">>])

\* an update patch with no key present
NoPatch == [donorId |-> Undefined, campaignId |-> Undefined,
            amount |-> Undefined, status |-> NoStatus]

\* the requests a client sends one at a time, a tenant referring to its own
\* rows: every create payload, every patch of campaignId, amount and status,
\* and the patch of donorId alone
SeqEnv ==
  [tenants |-> {"T1"},
   creates |-> [donorId : {1}, campaignId : {Null, 1, 2},
                amount : Amounts, status : Statuses],
   patches |-> [donorId : {Undefined}, campaignId : {Undefined, Null, 1, 2},
                amount : {Undefined} \cup Amounts,
                status : {NoStatus} \cup Statuses]
               \cup {[NoPatch EXCEPT !.donorId = 1]}]

\* the requests sent concurrently: creates linked to a campaign and patches
\* of a single key
ConcEnv ==
  [tenants |-> {"T1"},
   creates |-> [donorId : {1}, campaignId : {1, 2},
                amount : Amounts, status : {"Received", "Pledged"}],
   patches |-> {[NoPatch EXCEPT !.donorId = 1]}
               \cup {[NoPatch EXCEPT !.campaignId = c] : c \in {Null, 1, 2}}
               \cup {[NoPatch EXCEPT !.amount = a] : a \in Amounts}
               \cup {[NoPatch EXCEPT !.status = st] : st \in {"Received", "Cancelled"}}]

\* updateCampaign patches: the currentAmountRaised key absent or present
CampaignPatches == {Undefined, 0, 5, 20}

\* an API client of either tenant sending one request at a time: ids that
\* resolve under the caller's tenant, under the other tenant, or not at all
\* (0), and amounts the input schemas reject (0, -0.005)
ApiSeqEnv ==
  [tenants |-> Tenants,
   creates |-> [donorId : {0, 1, 2}, campaignId : {Null, 0, 1, 3},
                amount : {20}, status : {"Received", "Pledged"}]
               \cup {[donorId |-> 1, campaignId |-> 1, amount |-> a,
                      status |-> "Received"] : a \in {0, -5}},
   patches |-> {[NoPatch EXCEPT !.donorId = d] : d \in {0, 1, 2}}
               \cup {[NoPatch EXCEPT !.campaignId = c] : c \in {Null, 0, 1, 3}}
               \cup {[NoPatch EXCEPT !.amount = a] : a \in {5, 0, -5}}
               \cup {[NoPatch EXCEPT !.status = st] : st \in {"Received", "Cancelled"}},
   campaignIds |-> {1, 3},
   campaignPatches |-> CampaignPatches,
   campaignNames |-> {NoText},
   filters |-> [page : {1, 2}, limit : {1}, sortBy : {NoStatus, "amount"},
                sortOrder : {"asc", "desc"}]]

\* API clients of both tenants sending requests concurrently
ApiConcEnv ==
  [tenants |-> Tenants,
   creates |-> [donorId : {1, 2}, campaignId : {1, 3},
                amount : {20}, status : {"Received"}],
   patches |-> {[NoPatch EXCEPT !.campaignId = c] : c \in {1, 3}}
               \cup {[NoPatch EXCEPT !.status = "Cancelled"]}
               \cup {[NoPatch EXCEPT !.donorId = 2]},
   campaignIds |-> {1, 3},
   campaignPatches |-> {0},
   campaignNames |-> {NoText},
   filters |-> {}]

\* a client of either tenant updating and deleting campaigns, volunteers and
\* custom data one request at a time: ids of its own rows, of the other
\* tenant's rows, and of no row
CrudSeqEnv ==
  [tenants |-> Tenants,
   campaignIds |-> {1, 3, 4},
   campaignPatches |-> {Undefined, 5},
   campaignNames |-> {NoText, "gala"},
   rowIds |-> {1, 2, 3},
   volunteerPatches |-> [name : {NoText, "ann"}, email : {NoText, "a@x"}],
   customDataPatches |-> [dataType : {NoText, "survey"}, name : {NoText, "q1"}]]

\* clients of both tenants updating and deleting volunteers concurrently
CrudConcEnv ==
  [tenants |-> Tenants,
   rowIds |-> {1, 2},
   volunteerPatches |-> [name : {NoText, "ann", "bob"}, email : {NoText, "a@x"}]]

\* a client creating donations, deleting organizations and grants, and
\* listing donations and grants page by page
PagesEnv ==
  [tenants |-> Tenants,
   creates |-> [donorId : {1, 2}, campaignId : {Null, 1},
                amount : {20}, status : {"Received"}],
   rowIds |-> {1, 2},
   grantIds |-> {1, 3},
   searches |-> {<<>>, <<"b">>},
   filters |-> [page : {1, 2}, limit : {1, 2}, sortBy : {NoStatus},
                sortOrder : {"desc"}]]

\* the payload domains by kind of client
Env(kind) ==
  CASE kind = "sequential" -> SeqEnv
    [] kind = "concurrent" -> ConcEnv
    [] kind = "api-sequential" -> ApiSeqEnv
    [] kind = "crud-sequential" -> CrudSeqEnv
    [] kind = "crud-concurrent" -> CrudConcEnv
    [] kind = "pages" -> PagesEnv
    [] OTHER -> ApiConcEnv

(* --------------------------- pure helpers ------------------------------ *)
\* JavaScript truthiness of a nullable numeric id: if (input.campaignId)
Truthy(x) == x # Null /\ x # Undefined /\ x # 0

\* numeric(12,2): a decimal in mils rounded to cents, ties away from zero
ToNumeric2(m) == IF m >= 0 THEN (m + 5) \div 10 ELSE -((5 - m) \div 10)

\* parseFloat(row.amount).toString(): a stored amount as a decimal string
AmountToString(cents) == cents * 10

VARIABLES
  donations,   \* donations table: id -> row
  campaigns,   \* campaigns table: id -> row
  nextId,      \* serial of donations.id
  calls,       \* per request slot: handler, input, position, locals, outcome
  ncalls,      \* handler calls started so far
  volunteers,  \* volunteers table: id -> row
  customData,  \* custom_data table: id -> row
  organizations, \* organizations table: id -> row
  grants,      \* grants table: id -> row
  pre,         \* history: tables when the current batch of calls started
  batch,       \* history: calls started in the current batch
  touched,     \* history: donation ids targeted in the current batch
  distinct,    \* history: the batch's calls target pairwise different donations
  faulted,     \* history: some call of the batch ended in a storage/runtime error
  adjusters,   \* history: per campaign, the slots whose calls adjusted it in the batch
  env          \* the kind of client of this run: "sequential" or "concurrent"

otherTables == <<volunteers, customData, organizations, grants>>

vars == <<donations, campaigns, nextId, calls, ncalls, pre, batch, touched,
          distinct, faulted, adjusters, env, otherTables>>

NoInput == [id |-> Undefined, tenantId |-> "T1", donorId |-> Undefined,
            campaignId |-> Undefined, amount |-> Undefined, status |-> NoStatus,
            currentAmountRaised |-> Undefined, page |-> Undefined,
            limit |-> Undefined, sortBy |-> NoStatus, sortOrder |-> NoStatus,
            name |-> NoText, email |-> NoText, dataType |-> NoText,
            search |-> <<>>]
NoOld == [amount |-> 0, campaignId |-> Null, status |-> NoStatus]
\* no campaign returned
NoCampaign == [currentAmountRaised |-> Undefined]
IdleCall == [op |-> "none", pc |-> "idle", input |-> NoInput, old |-> NoOld,
             updated |-> TRUE, newId |-> Undefined, result |-> "none",
             rows |-> <<>>, total |-> Undefined, campaign |-> NoCampaign,
             repeat |-> FALSE]

InFlight(p) == calls[p].pc \notin {"idle", "done"}
Quiescent == \A p \in Procs : ~InFlight(p)

\* the rows the tables hold when the requests start
CampaignRows ==
  [c \in DOMAIN CampaignTenants |->
     [tenantId |-> CampaignTenants[c], name |-> "fund",
      currentAmountRaised |-> 0]]
VolunteerRows ==
  [v \in DOMAIN VolunteerTenants |->
     [tenantId |-> VolunteerTenants[v], name |-> "vol", email |-> "v@x"]]
CustomDataRows ==
  [d \in DOMAIN CustomDataTenants |->
     [tenantId |-> CustomDataTenants[d], dataType |-> "form", name |-> "f1"]]
OrganizationRows ==
  [o \in DOMAIN OrganizationTenants |-> [tenantId |-> OrganizationTenants[o]]]

TablesInit ==
  /\ donations = <<>>
  /\ campaigns = CampaignRows
  /\ volunteers = VolunteerRows
  /\ customData = CustomDataRows
  /\ organizations = OrganizationRows
  /\ grants = GrantRows
  /\ nextId = 1
  /\ calls = [p \in Procs |-> IdleCall]
  /\ ncalls = 0
  /\ pre = [donations |-> <<>>, campaigns |-> CampaignRows,
            volunteers |-> VolunteerRows, customData |-> CustomDataRows]
  /\ batch = 0
  /\ touched = {}
  /\ distinct = TRUE
  /\ faulted = FALSE
  /\ adjusters = [c \in DOMAIN CampaignTenants |-> {}]

\* concurrent clients
Init == TablesInit /\ env = "concurrent"

\* one client issuing one request at a time
InitSeq == TablesInit /\ env = "sequential"

(* ------------------------ storage statements --------------------------- *)
\* select from donors where id = .. and tenant_id = ..
SelectDonor(id, tenantId) == id \in DOMAIN Donors /\ Donors[id] = tenantId

SelectCampaign_AnyTenant(id, tenantId) == id \in DOMAIN campaigns
\* select from campaigns where id = .. and tenant_id = ..
SelectCampaign(id, tenantId) ==
  id \in DOMAIN campaigns /\ campaigns[id].tenantId = tenantId

SelectDonation_AnyTenant(id, tenantId) == id \in DOMAIN donations
\* select from donations where id = .. and tenant_id = ..
SelectDonation(id, tenantId) ==
  id \in DOMAIN donations /\ donations[id].tenantId = tenantId

\* update campaigns set current_amount_raised = current_amount_raised + delta
\* where id = c   (delta is a decimal string, here in mils)
AdjustCampaign(cs, c, deltaMils) ==
  IF c \in DOMAIN cs
    THEN [cs EXCEPT ![c].currentAmountRaised =
                        ToNumeric2(AmountToString(@) + deltaMils)]
    ELSE cs

\* delete from donations where id = ..
DeleteRow(ds, id) == [i \in DOMAIN ds \ {id} |-> ds[i]]

(* ------------------------- handler decisions --------------------------- *)
CreateAdjusts_AnyStatus(input) == Truthy(input.campaignId)
\* createDonation: if (input.campaignId && input.status === 'Received')
CreateAdjusts(input) == Truthy(input.campaignId) /\ input.status = "Received"

NewAmount_Input(input, old) ==
  IF input.amount # Undefined THEN input.amount ELSE 0
\* updateDonation: effective new values
NewAmount(input, old) ==
  IF input.amount # Undefined THEN input.amount ELSE AmountToString(old.amount)
NewCampaignId_Old(input, old) == old.campaignId
NewCampaignId(input, old) ==
  IF input.campaignId # Undefined THEN input.campaignId ELSE old.campaignId
NewStatus_Old(input, old) == old.status
NewStatus(input, old) ==
  IF input.status # NoStatus THEN input.status ELSE old.status

\* updateDonation: if (oldCampaignId && oldStatus === 'Received')
UpdateSubtracts(old) == Truthy(old.campaignId) /\ old.status = "Received"
\* updateDonation: if (newCampaignId && newStatus === 'Received')
UpdateAdds(input, old) ==
  Truthy(NewCampaignId(input, old)) /\ NewStatus(input, old) = "Received"

DeleteAdjusts_AnyStatus(old) == Truthy(old.campaignId)
\* deleteDonation: if (donation.campaignId && donation.status === 'Received')
DeleteAdjusts(old) == Truthy(old.campaignId) /\ old.status = "Received"

\* updateDonation: updateValues applied to the row by the update statement
ApplyPatch(row, input) ==
  [row EXCEPT
     !.donorId = IF input.donorId # Undefined THEN input.donorId ELSE @,
     !.campaignId = IF input.campaignId # Undefined THEN input.campaignId ELSE @,
     !.amount = IF input.amount # Undefined THEN ToNumeric2(input.amount) ELSE @,
     !.status = IF input.status # NoStatus THEN input.status ELSE @]

(* --------------------------- input schemas ----------------------------- *)
CreateDonationInputValid_Any(input) == TRUE
\* createDonationInputSchema: amount: z.number().positive()
CreateDonationInputValid(input) == input.amount > 0

\* updateDonationInputSchema: amount: z.number().positive().optional()
UpdateDonationInputValid(input) ==
  input.amount = Undefined \/ input.amount > 0

\* updateCampaignInputSchema: currentAmountRaised: z.number().nonnegative().optional()
UpdateCampaignInputValid(input) ==
  input.currentAmountRaised = Undefined \/ input.currentAmountRaised >= 0

\* paginationSchema: page and limit positive integers, limit at most 100
FilterValid(input) ==
  input.page > 0 /\ input.limit > 0 /\ input.limit <= 100

\* a procedure whose input fails its schema never calls its handler
Dispatch(call, valid, first) ==
  IF valid THEN [call EXCEPT !.pc = first]
           ELSE [call EXCEPT !.pc = "done", !.result = "ValidationError"]

(* ----------------------------- history --------------------------------- *)
\* a call starts: open a new batch when nothing else is in flight
StartHistory(target) ==
  IF Quiescent
    THEN /\ pre' = [donations |-> donations, campaigns |-> campaigns,
                    volunteers |-> volunteers, customData |-> customData]
         /\ batch' = 1
         /\ touched' = (IF target = Undefined THEN {} ELSE {target})
         /\ distinct' = TRUE
         /\ faulted' = FALSE
         /\ adjusters' = [c \in DOMAIN CampaignTenants |-> {}]
    ELSE /\ pre' = pre
         /\ batch' = batch + 1
         /\ touched' = (IF target = Undefined THEN touched ELSE touched \cup {target})
         /\ distinct' = (distinct /\ (target = Undefined \/ target \notin touched))
         /\ faulted' = faulted
         /\ adjusters' = adjusters

\* the call in slot p issues an adjustment of campaign c
NoteAdjust(p, c) ==
  adjusters' = IF c \in DOMAIN adjusters
                 THEN [adjusters EXCEPT ![c] = @ \cup {p}] ELSE adjusters

Finish(p, res) ==
  calls' = [calls EXCEPT ![p].pc = "done", ![p].result = res]

Goto(p, label) ==
  calls' = [calls EXCEPT ![p].pc = label]

(* ----------------------------- requests -------------------------------- *)
CanStart(p) == ~InFlight(p) /\ ncalls < MaxCalls

PendingInserts ==
  Cardinality({q \in Procs : calls[q].op = "create" /\ InFlight(q)
                             /\ calls[q].newId = Undefined})

StartCreate(p) ==
  /\ CanStart(p)
  /\ nextId + PendingInserts <= MaxDonations
  /\ \E t \in Env(env).tenants, in \in Env(env).creates :
       calls' = [calls EXCEPT ![p] =
                   Dispatch([IdleCall EXCEPT !.op = "create",
                      !.input = [NoInput EXCEPT !.tenantId = t,
                                 !.donorId = in.donorId, !.campaignId = in.campaignId,
                                 !.amount = in.amount, !.status = in.status]],
                     CreateDonationInputValid(in), "c_donor")]
  /\ ncalls' = ncalls + 1
  /\ StartHistory(Undefined)
  /\ UNCHANGED <<donations, campaigns, nextId, env, otherTables>>

StartUpdate(p) ==
  /\ CanStart(p)
  /\ \E i \in DonationIdInputs, t \in Env(env).tenants, in \in Env(env).patches :
       /\ calls' = [calls EXCEPT ![p] =
                   Dispatch([IdleCall EXCEPT !.op = "update",
                      !.input = [NoInput EXCEPT !.id = i, !.tenantId = t,
                                 !.donorId = in.donorId, !.campaignId = in.campaignId,
                                 !.amount = in.amount, !.status = in.status]],
                     UpdateDonationInputValid(in), "u_select")]
       /\ StartHistory(i)
  /\ ncalls' = ncalls + 1
  /\ UNCHANGED <<donations, campaigns, nextId, env, otherTables>>

\* the client sends its last updateDonation request, which succeeded, once
\* more with the same input
StartUpdateAgain(p) ==
  /\ CanStart(p)
  /\ calls[p].op = "update" /\ calls[p].pc = "done" /\ calls[p].result = "ok"
  /\ calls' = [calls EXCEPT ![p] =
                 [IdleCall EXCEPT !.op = "update", !.pc = "u_select",
                                  !.input = calls[p].input, !.repeat = TRUE]]
  /\ StartHistory(calls[p].input.id)
  /\ ncalls' = ncalls + 1
  /\ UNCHANGED <<donations, campaigns, nextId, env, otherTables>>

StartDelete(p) ==
  /\ CanStart(p)
  /\ \E i \in DonationIdInputs, t \in Env(env).tenants :
       /\ calls' = [calls EXCEPT ![p] =
                   [IdleCall EXCEPT !.op = "delete", !.pc = "d_select",
                      !.input = [NoInput EXCEPT !.id = i, !.tenantId = t]]]
       /\ StartHistory(i)
  /\ ncalls' = ncalls + 1
  /\ UNCHANGED <<donations, campaigns, nextId, env, otherTables>>

(* --------------------------- createDonation ---------------------------- *)
CreateSelectDonor(p) ==
  LET in == calls[p].input IN
  /\ calls[p].pc = "c_donor"
  /\ IF ~SelectDonor(in.donorId, in.tenantId)
       THEN Finish(p, "DonorNotFound")
       ELSE IF Truthy(in.campaignId) THEN Goto(p, "c_campaign")
                                     ELSE Goto(p, "c_insert")
  /\ UNCHANGED <<donations, campaigns, nextId, ncalls, pre, batch, touched, distinct, faulted, adjusters, env, otherTables>>

CreateSelectCampaign(p) ==
  LET in == calls[p].input IN
  /\ calls[p].pc = "c_campaign"
  /\ IF ~SelectCampaign(in.campaignId, in.tenantId)
       THEN Finish(p, "CampaignNotFound")
       ELSE Goto(p, "c_insert")
  /\ UNCHANGED <<donations, campaigns, nextId, ncalls, pre, batch, touched, distinct, faulted, adjusters, env, otherTables>>

CreateInsert(p) ==
  LET in == calls[p].input IN
  /\ calls[p].pc = "c_insert"
  /\ donations' = donations @@
       (nextId :> [tenantId |-> in.tenantId, donorId |-> in.donorId,
                   campaignId |-> in.campaignId,
                   amount |-> ToNumeric2(in.amount), status |-> in.status])
  /\ nextId' = nextId + 1
  /\ calls' = [calls EXCEPT
                 ![p].newId = nextId,
                 ![p].pc = IF CreateAdjusts(in) THEN "c_adjust" ELSE "done",
                 ![p].result = IF CreateAdjusts(in) THEN @ ELSE "ok"]
  /\ touched' = touched \cup {nextId}
  /\ distinct' = (distinct /\ nextId \notin touched)
  /\ UNCHANGED <<campaigns, ncalls, pre, batch, faulted, adjusters, env, otherTables>>

CreateAdjust(p) ==
  LET in == calls[p].input IN
  /\ calls[p].pc = "c_adjust"
  /\ campaigns' = AdjustCampaign(campaigns, in.campaignId, in.amount)
  /\ NoteAdjust(p, in.campaignId)
  /\ Finish(p, "ok")
  /\ UNCHANGED <<donations, nextId, ncalls, pre, batch, touched, distinct, faulted, env, otherTables>>

(* --------------------------- updateDonation ---------------------------- *)
\* position after the validation selects of updateDonation
AfterUpdateDonorCheck(in) ==
  IF in.campaignId # Undefined /\ Truthy(in.campaignId)
    THEN "u_campaign" ELSE "u_update"

UpdateSelectDonation(p) ==
  LET in == calls[p].input IN
  /\ calls[p].pc = "u_select"
  /\ IF ~SelectDonation(in.id, in.tenantId)
       THEN Finish(p, "DonationNotFound")
       ELSE calls' = [calls EXCEPT
              ![p].old = [amount |-> donations[in.id].amount,
                          campaignId |-> donations[in.id].campaignId,
                          status |-> donations[in.id].status],
              ![p].pc = IF Truthy(in.donorId) THEN "u_donor"
                        ELSE AfterUpdateDonorCheck(in)]
  /\ UNCHANGED <<donations, campaigns, nextId, ncalls, pre, batch, touched, distinct, faulted, adjusters, env, otherTables>>

UpdateSelectDonor(p) ==
  LET in == calls[p].input IN
  /\ calls[p].pc = "u_donor"
  /\ IF ~SelectDonor(in.donorId, in.tenantId)
       THEN Finish(p, "DonorNotFound")
       ELSE Goto(p, AfterUpdateDonorCheck(in))
  /\ UNCHANGED <<donations, campaigns, nextId, ncalls, pre, batch, touched, distinct, faulted, adjusters, env, otherTables>>

UpdateSelectCampaign(p) ==
  LET in == calls[p].input IN
  /\ calls[p].pc = "u_campaign"
  /\ IF ~SelectCampaign(in.campaignId, in.tenantId)
       THEN Finish(p, "CampaignNotFound")
       ELSE Goto(p, "u_update")
  /\ UNCHANGED <<donations, campaigns, nextId, ncalls, pre, batch, touched, distinct, faulted, adjusters, env, otherTables>>

\* outcome of updateDonation's return statement: result[0] is undefined when
\* the update statement matched no row, and reading updated.amount throws
UpdateReturn(updated) == IF updated THEN "ok" ELSE "TypeError"

\* the call at p has issued its last statement and runs to its return
FinishUpdate(cs, p, updated) ==
  [cs EXCEPT ![p].pc = "done", ![p].updated = updated,
             ![p].result = UpdateReturn(updated)]

UpdateUpdateRow(p) ==
  LET in == calls[p].input
      old == calls[p].old
      hit == in.id \in DOMAIN donations
  IN
  /\ calls[p].pc = "u_update"
  /\ donations' = IF hit THEN [donations EXCEPT ![in.id] = ApplyPatch(@, in)]
                         ELSE donations
  /\ calls' = IF UpdateSubtracts(old)
                THEN [calls EXCEPT ![p].pc = "u_sub", ![p].updated = hit]
              ELSE IF UpdateAdds(in, old)
                THEN [calls EXCEPT ![p].pc = "u_add", ![p].updated = hit]
              ELSE FinishUpdate(calls, p, hit)
  /\ faulted' = (faulted \/ (~hit /\ ~UpdateSubtracts(old) /\ ~UpdateAdds(in, old)))
  /\ UNCHANGED <<campaigns, nextId, ncalls, pre, batch, touched, distinct, adjusters, env, otherTables>>

UpdateSubtractOld(p) ==
  LET in == calls[p].input
      old == calls[p].old
  IN
  /\ calls[p].pc = "u_sub"
  /\ campaigns' = AdjustCampaign(campaigns, old.campaignId,
                                 -AmountToString(old.amount))
  /\ calls' = IF UpdateAdds(in, old)
                THEN [calls EXCEPT ![p].pc = "u_add"]
                ELSE FinishUpdate(calls, p, calls[p].updated)
  /\ faulted' = (faulted \/ (~calls[p].updated /\ ~UpdateAdds(in, old)))
  /\ NoteAdjust(p, old.campaignId)
  /\ UNCHANGED <<donations, nextId, ncalls, pre, batch, touched, distinct, env, otherTables>>

UpdateAddNew(p) ==
  LET in == calls[p].input
      old == calls[p].old
  IN
  /\ calls[p].pc = "u_add"
  /\ campaigns' = AdjustCampaign(campaigns, NewCampaignId(in, old),
                                 NewAmount(in, old))
  /\ calls' = FinishUpdate(calls, p, calls[p].updated)
  /\ faulted' = (faulted \/ ~calls[p].updated)
  /\ NoteAdjust(p, NewCampaignId(in, old))
  /\ UNCHANGED <<donations, nextId, ncalls, pre, batch, touched, distinct, env, otherTables>>

(* --------------------------- deleteDonation ---------------------------- *)
DeleteSelectDonation(p) ==
  LET in == calls[p].input IN
  /\ calls[p].pc = "d_select"
  /\ IF ~SelectDonation(in.id, in.tenantId)
       THEN Finish(p, "DonationNotFound")
       ELSE calls' = [calls EXCEPT
              ![p].old = [amount |-> donations[in.id].amount,
                          campaignId |-> donations[in.id].campaignId,
                          status |-> donations[in.id].status],
              ![p].pc = "d_delete"]
  /\ UNCHANGED <<donations, campaigns, nextId, ncalls, pre, batch, touched, distinct, faulted, adjusters, env, otherTables>>

DeleteDeleteRow(p) ==
  LET in == calls[p].input
      old == calls[p].old
  IN
  /\ calls[p].pc = "d_delete"
  /\ donations' = DeleteRow(donations, in.id)
  /\ IF DeleteAdjusts(old) THEN Goto(p, "d_sub") ELSE Finish(p, "ok")
  /\ UNCHANGED <<campaigns, nextId, ncalls, pre, batch, touched, distinct, faulted, adjusters, env, otherTables>>

DeleteSubtract(p) ==
  LET old == calls[p].old IN
  /\ calls[p].pc = "d_sub"
  /\ campaigns' = AdjustCampaign(campaigns, old.campaignId,
                                 -AmountToString(old.amount))
  /\ NoteAdjust(p, old.campaignId)
  /\ Finish(p, "ok")
  /\ UNCHANGED <<donations, nextId, ncalls, pre, batch, touched, distinct, faulted, env, otherTables>>

(* ---------------------- updateCampaign, deleteCampaign ----------------- *)
StartUpdateCampaign(p) ==
  /\ CanStart(p)
  /\ \E i \in Env(env).campaignIds, t \in Env(env).tenants,
        v \in Env(env).campaignPatches, n \in Env(env).campaignNames :
       LET in == [NoInput EXCEPT !.id = i, !.tenantId = t, !.name = n,
                                 !.currentAmountRaised = v]
       IN calls' = [calls EXCEPT ![p] =
                      Dispatch([IdleCall EXCEPT !.op = "updateCampaign",
                                                !.input = in],
                               UpdateCampaignInputValid(in), "uc_update")]
  /\ ncalls' = ncalls + 1
  /\ StartHistory(Undefined)
  /\ UNCHANGED <<donations, campaigns, nextId, env, otherTables>>

CampaignUpdateData_Keep(row, input) == row
\* updateCampaign: updateData applied to the row by the update statement
CampaignUpdateData(row, input) ==
  [row EXCEPT !.name = IF input.name # NoText THEN input.name ELSE @,
              !.currentAmountRaised =
                 IF input.currentAmountRaised # Undefined
                   THEN ToNumeric2(input.currentAmountRaised) ELSE @]

\* update campaigns set ...updateData where id = .. and tenant_id = ..
\* returning; the handler returns the row with its numerics parsed
UpdateCampaignUpdate(p) ==
  LET in == calls[p].input IN
  /\ calls[p].pc = "uc_update"
  /\ IF SelectCampaign(in.id, in.tenantId)
       THEN /\ campaigns' =
                 [campaigns EXCEPT ![in.id] = CampaignUpdateData(@, in)]
            /\ calls' = [calls EXCEPT
                 ![p].pc = "done", ![p].result = "ok",
                 ![p].campaign =
                    [currentAmountRaised |->
                       CampaignUpdateData(campaigns[in.id], in).currentAmountRaised]]
       ELSE /\ campaigns' = campaigns
            /\ Finish(p, "CampaignNotFound")
  /\ UNCHANGED <<donations, nextId, ncalls, pre, batch, touched, distinct, faulted, adjusters, env, otherTables>>

StartDeleteCampaign(p) ==
  /\ CanStart(p)
  /\ \E i \in Env(env).campaignIds, t \in Env(env).tenants :
       calls' = [calls EXCEPT ![p] =
                   [IdleCall EXCEPT !.op = "deleteCampaign", !.pc = "dc_delete",
                      !.input = [NoInput EXCEPT !.id = i, !.tenantId = t]]]
  /\ ncalls' = ncalls + 1
  /\ StartHistory(Undefined)
  /\ UNCHANGED <<donations, campaigns, nextId, env, otherTables>>

\* delete from campaigns where id = .. and tenant_id = ..
DeleteCampaignDelete(p) ==
  LET in == calls[p].input IN
  /\ calls[p].pc = "dc_delete"
  /\ IF SelectCampaign(in.id, in.tenantId)
       THEN /\ campaigns' = [c \in DOMAIN campaigns \ {in.id} |-> campaigns[c]]
            /\ Finish(p, "ok")
       ELSE /\ campaigns' = campaigns
            /\ Finish(p, "CampaignNotFound")
  /\ UNCHANGED <<donations, nextId, ncalls, pre, batch, touched, distinct, faulted, adjusters, env, otherTables>>

(* ------------------- getDonationById, getDonations --------------------- *)
\* donations inner join donors on donations.donor_id = donors.id
JoinsDonor(row) == row.donorId \in DOMAIN Donors

\* a donation as a handler returns it
Returned_Row(i) == [id |-> i, row |-> donations[i]]

StartGetDonationById(p) ==
  /\ CanStart(p)
  /\ \E i \in DonationIdInputs, t \in Env(env).tenants :
       calls' = [calls EXCEPT ![p] =
                   [IdleCall EXCEPT !.op = "getDonationById", !.pc = "gi_select",
                      !.input = [NoInput EXCEPT !.id = i, !.tenantId = t]]]
  /\ ncalls' = ncalls + 1
  /\ StartHistory(Undefined)
  /\ UNCHANGED <<donations, campaigns, nextId, env, otherTables>>

GetDonationByIdSelect(p) ==
  LET in == calls[p].input
      hit == SelectDonation(in.id, in.tenantId) /\ JoinsDonor(donations[in.id])
  IN
  /\ calls[p].pc = "gi_select"
  /\ calls' = [calls EXCEPT
                 ![p].pc = "done",
                 ![p].rows = IF hit THEN <<Returned_Row(in.id)>> ELSE <<>>,
                 ![p].result = IF hit THEN "ok" ELSE "null"]
  /\ UNCHANGED <<donations, campaigns, nextId, ncalls, pre, batch, touched, distinct, faulted, adjusters, env, otherTables>>

Matching_AnyTenant(tenantId) ==
  {i \in DOMAIN donations : JoinsDonor(donations[i])}
\* rows of getDonations' query: tenant filter on the joined donations
Matching(tenantId) ==
  {i \in DOMAIN donations :
     donations[i].tenantId = tenantId /\ JoinsDonor(donations[i])}

\* order by: the amount column when sortBy is 'amount', the date column
\* otherwise (dates are free inputs: any order of the rows); rows of equal
\* key come in any order
InOrder(order, sortBy, sortOrder) ==
  sortBy = "amount" =>
    \A a, b \in DOMAIN order :
      a < b => IF sortOrder = "asc"
                 THEN donations[order[a]].amount <= donations[order[b]].amount
                 ELSE donations[order[a]].amount >= donations[order[b]].amount

Orderings(ids, sortBy, sortOrder) ==
  {order \in [1..Cardinality(ids) -> ids] :
     /\ \A a, b \in DOMAIN order : a # b => order[a] # order[b]
     /\ InOrder(order, sortBy, sortOrder)}

\* limit(filter.limit).offset((filter.page - 1) * filter.limit)
Page(order, page, limit) ==
  LET offset == (page - 1) * limit
      last == IF offset + limit < Len(order) THEN offset + limit ELSE Len(order)
  IN SubSeq(order, offset + 1, last)

StartGetDonations(p) ==
  /\ CanStart(p)
  /\ \E t \in Env(env).tenants, f \in Env(env).filters :
       LET in == [NoInput EXCEPT !.tenantId = t, !.page = f.page,
                     !.limit = f.limit, !.sortBy = f.sortBy,
                     !.sortOrder = f.sortOrder]
       IN calls' = [calls EXCEPT ![p] =
                      Dispatch([IdleCall EXCEPT !.op = "getDonations",
                                                !.input = in],
                               FilterValid(in), "g_select")]
  /\ ncalls' = ncalls + 1
  /\ StartHistory(Undefined)
  /\ UNCHANGED <<donations, campaigns, nextId, env, otherTables>>

GetDonationsSelect(p) ==
  LET in == calls[p].input IN
  /\ calls[p].pc = "g_select"
  /\ \E order \in Orderings(Matching(in.tenantId), in.sortBy, in.sortOrder) :
       calls' = [calls EXCEPT
                   ![p].pc = "g_count",
                   ![p].rows = [k \in DOMAIN Page(order, in.page, in.limit) |->
                                  Returned_Row(Page(order, in.page, in.limit)[k])]]
  /\ UNCHANGED <<donations, campaigns, nextId, ncalls, pre, batch, touched, distinct, faulted, adjusters, env, otherTables>>

\* select count(*) from donations inner join donors where <same conditions>
GetDonationsCount(p) ==
  LET in == calls[p].input IN
  /\ calls[p].pc = "g_count"
  /\ calls' = [calls EXCEPT
                 ![p].pc = "done",
                 ![p].total = Cardinality(Matching(in.tenantId)),
                 ![p].result = "ok"]
  /\ UNCHANGED <<donations, campaigns, nextId, ncalls, pre, batch, touched, distinct, faulted, adjusters, env, otherTables>>

(* ------------- getVolunteerById, updateVolunteer, deleteVolunteer ------ *)
SelectVolunteer_AnyTenant(id, tenantId) == id \in DOMAIN volunteers
\* volunteers where id = .. and tenant_id = ..
SelectVolunteer(id, tenantId) ==
  id \in DOMAIN volunteers /\ volunteers[id].tenantId = tenantId

VolunteerUpdateData_All(row, input) ==
  [row EXCEPT !.name = input.name, !.email = input.email]
\* updateVolunteer: updateData applied to the row by the update statement
VolunteerUpdateData(row, input) ==
  [row EXCEPT !.name = IF input.name # NoText THEN input.name ELSE @,
              !.email = IF input.email # NoText THEN input.email ELSE @]

StartUpdateVolunteer(p) ==
  /\ CanStart(p)
  /\ \E i \in Env(env).rowIds, t \in Env(env).tenants,
        in \in Env(env).volunteerPatches :
       calls' = [calls EXCEPT ![p] =
                   [IdleCall EXCEPT !.op = "updateVolunteer", !.pc = "uv_select",
                      !.input = [NoInput EXCEPT !.id = i, !.tenantId = t,
                                   !.name = in.name, !.email = in.email]]]
  /\ ncalls' = ncalls + 1
  /\ StartHistory(Undefined)
  /\ UNCHANGED <<donations, campaigns, nextId, env, otherTables>>

\* const existingVolunteer = await getVolunteerById(input.id, tenantId)
UpdateVolunteerSelect(p) ==
  LET in == calls[p].input IN
  /\ calls[p].pc = "uv_select"
  /\ IF SelectVolunteer(in.id, in.tenantId)
       THEN Goto(p, "uv_update")
       ELSE Finish(p, "VolunteerNotFound")
  /\ UNCHANGED <<donations, campaigns, nextId, ncalls, pre, batch, touched, distinct,
               faulted, adjusters, env, otherTables>>

\* update volunteers set ...updateData where id = .. and tenant_id = ..
\* returning; no row returned is an error
UpdateVolunteerUpdate(p) ==
  LET in == calls[p].input IN
  /\ calls[p].pc = "uv_update"
  /\ IF SelectVolunteer(in.id, in.tenantId)
       THEN /\ volunteers' =
                 [volunteers EXCEPT ![in.id] = VolunteerUpdateData(@, in)]
            /\ Finish(p, "ok")
       ELSE /\ volunteers' = volunteers
            /\ Finish(p, "VolunteerUpdateFailed")
  /\ UNCHANGED <<donations, campaigns, nextId, ncalls, pre, batch, touched, distinct,
               faulted, adjusters, env, customData, organizations, grants>>

StartDeleteVolunteer(p) ==
  /\ CanStart(p)
  /\ \E i \in Env(env).rowIds, t \in Env(env).tenants :
       calls' = [calls EXCEPT ![p] =
                   [IdleCall EXCEPT !.op = "deleteVolunteer", !.pc = "dv_select",
                      !.input = [NoInput EXCEPT !.id = i, !.tenantId = t]]]
  /\ ncalls' = ncalls + 1
  /\ StartHistory(Undefined)
  /\ UNCHANGED <<donations, campaigns, nextId, env, otherTables>>

DeleteVolunteerSelect(p) ==
  LET in == calls[p].input IN
  /\ calls[p].pc = "dv_select"
  /\ IF SelectVolunteer(in.id, in.tenantId)
       THEN Goto(p, "dv_delete")
       ELSE Finish(p, "VolunteerNotFound")
  /\ UNCHANGED <<donations, campaigns, nextId, ncalls, pre, batch, touched, distinct,
               faulted, adjusters, env, otherTables>>

\* delete from volunteers where id = .. and tenant_id = ..  (result unchecked)
DeleteVolunteerDelete(p) ==
  LET in == calls[p].input IN
  /\ calls[p].pc = "dv_delete"
  /\ volunteers' = IF SelectVolunteer(in.id, in.tenantId)
                     THEN [v \in DOMAIN volunteers \ {in.id} |-> volunteers[v]]
                     ELSE volunteers
  /\ Finish(p, "ok")
  /\ UNCHANGED <<donations, campaigns, nextId, ncalls, pre, batch, touched, distinct,
               faulted, adjusters, env, customData, organizations, grants>>

(* ------------------- updateCustomData, deleteCustomData ---------------- *)
\* custom_data where id = .. and tenant_id = ..
SelectCustomData(id, tenantId) ==
  id \in DOMAIN customData /\ customData[id].tenantId = tenantId

CustomDataUpdateData_All(row, input) ==
  [row EXCEPT !.dataType = input.dataType, !.name = input.name]
\* updateCustomData: updateData applied to the row by the update statement
CustomDataUpdateData(row, input) ==
  [row EXCEPT !.dataType = IF input.dataType # NoText THEN input.dataType ELSE @,
              !.name = IF input.name # NoText THEN input.name ELSE @]

StartUpdateCustomData(p) ==
  /\ CanStart(p)
  /\ \E i \in Env(env).rowIds, t \in Env(env).tenants,
        in \in Env(env).customDataPatches :
       calls' = [calls EXCEPT ![p] =
                   [IdleCall EXCEPT !.op = "updateCustomData", !.pc = "ud_update",
                      !.input = [NoInput EXCEPT !.id = i, !.tenantId = t,
                                   !.dataType = in.dataType, !.name = in.name]]]
  /\ ncalls' = ncalls + 1
  /\ StartHistory(Undefined)
  /\ UNCHANGED <<donations, campaigns, nextId, env, otherTables>>

\* update custom_data set ...updateData where id = .. and tenant_id = ..
\* returning; no row returned is an error
UpdateCustomDataUpdate(p) ==
  LET in == calls[p].input IN
  /\ calls[p].pc = "ud_update"
  /\ IF SelectCustomData(in.id, in.tenantId)
       THEN /\ customData' =
                 [customData EXCEPT ![in.id] = CustomDataUpdateData(@, in)]
            /\ Finish(p, "ok")
       ELSE /\ customData' = customData
            /\ Finish(p, "CustomDataNotFound")
  /\ UNCHANGED <<donations, campaigns, nextId, ncalls, pre, batch, touched, distinct,
               faulted, adjusters, env, volunteers, organizations, grants>>

StartDeleteCustomData(p) ==
  /\ CanStart(p)
  /\ \E i \in Env(env).rowIds, t \in Env(env).tenants :
       calls' = [calls EXCEPT ![p] =
                   [IdleCall EXCEPT !.op = "deleteCustomData", !.pc = "dd_delete",
                      !.input = [NoInput EXCEPT !.id = i, !.tenantId = t]]]
  /\ ncalls' = ncalls + 1
  /\ StartHistory(Undefined)
  /\ UNCHANGED <<donations, campaigns, nextId, env, otherTables>>

\* delete from custom_data where id = .. and tenant_id = .. returning id;
\* no row returned is an error
DeleteCustomDataDelete(p) ==
  LET in == calls[p].input IN
  /\ calls[p].pc = "dd_delete"
  /\ IF SelectCustomData(in.id, in.tenantId)
       THEN /\ customData' = [d \in DOMAIN customData \ {in.id} |-> customData[d]]
            /\ Finish(p, "ok")
       ELSE /\ customData' = customData
            /\ Finish(p, "CustomDataNotFound")
  /\ UNCHANGED <<donations, campaigns, nextId, ncalls, pre, batch, touched, distinct,
               faulted, adjusters, env, volunteers, organizations, grants>>

(* ---------------- deleteOrganization, deleteGrant, getGrants ----------- *)
\* organizations where id = .. and tenant_id = ..
SelectOrganization(id, tenantId) ==
  id \in DOMAIN organizations /\ organizations[id].tenantId = tenantId

\* grants where id = .. and tenant_id = ..
SelectGrant(id, tenantId) ==
  id \in DOMAIN grants /\ grants[id].tenantId = tenantId

StartDeleteOrganization(p) ==
  /\ CanStart(p)
  /\ \E i \in Env(env).rowIds, t \in Env(env).tenants :
       calls' = [calls EXCEPT ![p] =
                   [IdleCall EXCEPT !.op = "deleteOrganization", !.pc = "do_select",
                      !.input = [NoInput EXCEPT !.id = i, !.tenantId = t]]]
  /\ ncalls' = ncalls + 1
  /\ StartHistory(Undefined)
  /\ UNCHANGED <<donations, campaigns, nextId, env, otherTables>>

\* const existing = await getOrganizationById(id, tenantId)
DeleteOrganizationSelect(p) ==
  LET in == calls[p].input IN
  /\ calls[p].pc = "do_select"
  /\ IF SelectOrganization(in.id, in.tenantId)
       THEN Goto(p, "do_delete")
       ELSE Finish(p, "OrganizationNotFound")
  /\ UNCHANGED <<donations, campaigns, nextId, ncalls, pre, batch, touched, distinct,
               faulted, adjusters, env, otherTables>>

\* delete from organizations where id = .. and tenant_id = ..
DeleteOrganizationDelete(p) ==
  LET in == calls[p].input IN
  /\ calls[p].pc = "do_delete"
  /\ organizations' =
       IF SelectOrganization(in.id, in.tenantId)
         THEN [o \in DOMAIN organizations \ {in.id} |-> organizations[o]]
         ELSE organizations
  /\ Finish(p, "ok")
  /\ UNCHANGED <<donations, campaigns, nextId, ncalls, pre, batch, touched, distinct,
               faulted, adjusters, env, volunteers, customData, grants>>

StartDeleteGrant(p) ==
  /\ CanStart(p)
  /\ \E i \in Env(env).grantIds, t \in Env(env).tenants :
       calls' = [calls EXCEPT ![p] =
                   [IdleCall EXCEPT !.op = "deleteGrant", !.pc = "dg_select",
                      !.input = [NoInput EXCEPT !.id = i, !.tenantId = t]]]
  /\ ncalls' = ncalls + 1
  /\ StartHistory(Undefined)
  /\ UNCHANGED <<donations, campaigns, nextId, env, otherTables>>

DeleteGrantSelect(p) ==
  LET in == calls[p].input IN
  /\ calls[p].pc = "dg_select"
  /\ IF SelectGrant(in.id, in.tenantId)
       THEN Goto(p, "dg_delete")
       ELSE Finish(p, "GrantNotFound")
  /\ UNCHANGED <<donations, campaigns, nextId, ncalls, pre, batch, touched, distinct,
               faulted, adjusters, env, otherTables>>

\* delete from grants where id = .. and tenant_id = ..
DeleteGrantDelete(p) ==
  LET in == calls[p].input IN
  /\ calls[p].pc = "dg_delete"
  /\ grants' = IF SelectGrant(in.id, in.tenantId)
                 THEN [g \in DOMAIN grants \ {in.id} |-> grants[g]]
                 ELSE grants
  /\ Finish(p, "ok")
  /\ UNCHANGED <<donations, campaigns, nextId, ncalls, pre, batch, touched, distinct,
               faulted, adjusters, env, volunteers, customData, organizations>>

\* text ilike '%term%' over lower-case letters: term occurs in text
ILike(text, term) ==
  \E k \in 0..(Len(text) - Len(term)) : SubSeq(text, k + 1, k + Len(term)) = term

\* getGrants: the conditions array; if (filter.search) skips the empty string
GrantConditions(row, input) ==
  /\ row.tenantId = input.tenantId
  /\ (input.search # <<>>) => ILike(row.grantName, input.search)

\* grants inner join organizations on grants.organization_id = organizations.id
JoinsOrganization(row) == row.organizationId \in DOMAIN organizations

\* rows of getGrants' main query, before order by, limit and offset
GrantResults(input) ==
  {g \in DOMAIN grants :
     GrantConditions(grants[g], input) /\ JoinsOrganization(grants[g])}

\* select count(*) from grants where <conditions>
GrantCount(input) ==
  Cardinality({g \in DOMAIN grants : GrantConditions(grants[g], input)})

\* order by created_at: the rows in any order
RowOrders(ids) ==
  {order \in [1..Cardinality(ids) -> ids] :
     \A a, b \in DOMAIN order : a # b => order[a] # order[b]}

StartGetGrants(p) ==
  /\ CanStart(p)
  /\ \E t \in Env(env).tenants, f \in Env(env).filters,
        term \in Env(env).searches :
       LET in == [NoInput EXCEPT !.tenantId = t, !.page = f.page,
                     !.limit = f.limit, !.sortBy = f.sortBy,
                     !.sortOrder = f.sortOrder, !.search = term]
       IN calls' = [calls EXCEPT ![p] =
                      Dispatch([IdleCall EXCEPT !.op = "getGrants",
                                                !.input = in],
                               FilterValid(in), "gg_select")]
  /\ ncalls' = ncalls + 1
  /\ StartHistory(Undefined)
  /\ UNCHANGED <<donations, campaigns, nextId, env, otherTables>>

GetGrantsSelect(p) ==
  LET in == calls[p].input IN
  /\ calls[p].pc = "gg_select"
  /\ \E order \in RowOrders(GrantResults(in)) :
       calls' = [calls EXCEPT ![p].pc = "gg_count",
                              ![p].rows = Page(order, in.page, in.limit)]
  /\ UNCHANGED <<donations, campaigns, nextId, ncalls, pre, batch, touched, distinct,
               faulted, adjusters, env, otherTables>>

GetGrantsCount(p) ==
  LET in == calls[p].input IN
  /\ calls[p].pc = "gg_count"
  /\ calls' = [calls EXCEPT ![p].pc = "done",
                            ![p].total = GrantCount(in),
                            ![p].result = "ok"]
  /\ UNCHANGED <<donations, campaigns, nextId, ncalls, pre, batch, touched, distinct,
               faulted, adjusters, env, otherTables>>

(* --------------------------- storage errors ---------------------------- *)
\* the awaited statement the call is positioned at rejects; the handler's
\* catch block logs and rethrows, nothing already written is undone
StorageFail(p) ==
  /\ InFlight(p)
  /\ Finish(p, "StorageError")
  /\ faulted' = TRUE
  /\ UNCHANGED <<donations, campaigns, nextId, ncalls, pre, batch, touched, distinct, adjusters, env, otherTables>>

(* --------------------------- specifications ---------------------------- *)
Step(p) ==
  \/ CreateSelectDonor(p)
  \/ CreateSelectCampaign(p)
  \/ CreateInsert(p)
  \/ CreateAdjust(p)
  \/ UpdateSelectDonation(p)
  \/ UpdateSelectDonor(p)
  \/ UpdateSelectCampaign(p)
  \/ UpdateUpdateRow(p)
  \/ UpdateSubtractOld(p)
  \/ UpdateAddNew(p)
  \/ DeleteSelectDonation(p)
  \/ DeleteDeleteRow(p)
  \/ DeleteSubtract(p)
  \/ StorageFail(p)

\* concurrent requests: calls start at any time
Next ==
  \E p \in Procs :
    \/ StartCreate(p)
    \/ StartUpdate(p)
    \/ StartDelete(p)
    \/ Step(p)

Spec == Init /\ [][Next]_vars

\* one request at a time: a call starts only when the previous one has ended
NextSeq ==
  \/ Quiescent /\ StartCreate(SeqProc)
  \/ Quiescent /\ StartUpdate(SeqProc)
  \/ Quiescent /\ StartDelete(SeqProc)
  \/ Step(SeqProc)

SpecSeq == InitSeq /\ [][NextSeq]_vars

\* the statements of the campaign handlers and of the donation reads
ApiStep(p) ==
  \/ UpdateCampaignUpdate(p)
  \/ DeleteCampaignDelete(p)
  \/ GetDonationByIdSelect(p)
  \/ GetDonationsSelect(p)
  \/ GetDonationsCount(p)

InitApiSeq == TablesInit /\ env = "api-sequential"

\* an API client of either tenant, one request at a time
NextApiSeq ==
  \/ Quiescent /\ StartCreate(SeqProc)
  \/ Quiescent /\ StartUpdate(SeqProc)
  \/ Quiescent /\ StartDelete(SeqProc)
  \/ Quiescent /\ StartUpdateCampaign(SeqProc)
  \/ Quiescent /\ StartDeleteCampaign(SeqProc)
  \/ Quiescent /\ StartGetDonationById(SeqProc)
  \/ Quiescent /\ StartGetDonations(SeqProc)
  \/ Step(SeqProc)
  \/ ApiStep(SeqProc)

SpecApiSeq == InitApiSeq /\ [][NextApiSeq]_vars

\* an API client that also resends a successful updateDonation request
NextRepeat ==
  \/ NextApiSeq
  \/ Quiescent /\ StartUpdateAgain(SeqProc)

SpecRepeat == InitApiSeq /\ [][NextRepeat]_vars

InitApi == TablesInit /\ env = "api-concurrent"

\* API clients of both tenants, requests in flight together
NextApi ==
  \E p \in Procs :
    \/ StartCreate(p)
    \/ StartUpdate(p)
    \/ StartDelete(p)
    \/ StartUpdateCampaign(p)
    \/ StartDeleteCampaign(p)
    \/ Step(p)
    \/ UpdateCampaignUpdate(p)
    \/ DeleteCampaignDelete(p)

SpecApi == InitApi /\ [][NextApi]_vars

\* the statements of the update and delete handlers of campaigns,
\* volunteers and custom data
CrudStep(p) ==
  \/ UpdateCampaignUpdate(p)
  \/ DeleteCampaignDelete(p)
  \/ UpdateVolunteerSelect(p)
  \/ UpdateVolunteerUpdate(p)
  \/ DeleteVolunteerSelect(p)
  \/ DeleteVolunteerDelete(p)
  \/ UpdateCustomDataUpdate(p)
  \/ DeleteCustomDataDelete(p)
  \/ StorageFail(p)

InitCrudSeq == TablesInit /\ env = "crud-sequential"

\* a client of either tenant, one update or delete request at a time
NextCrudSeq ==
  \/ Quiescent /\ StartUpdateCampaign(SeqProc)
  \/ Quiescent /\ StartDeleteCampaign(SeqProc)
  \/ Quiescent /\ StartUpdateVolunteer(SeqProc)
  \/ Quiescent /\ StartDeleteVolunteer(SeqProc)
  \/ Quiescent /\ StartUpdateCustomData(SeqProc)
  \/ Quiescent /\ StartDeleteCustomData(SeqProc)
  \/ CrudStep(SeqProc)

SpecCrudSeq == InitCrudSeq /\ [][NextCrudSeq]_vars

InitVol == TablesInit /\ env = "crud-concurrent"

\* volunteer updates and deletes of both tenants in flight together
NextVol ==
  \E p \in Procs :
    \/ StartUpdateVolunteer(p)
    \/ StartDeleteVolunteer(p)
    \/ UpdateVolunteerSelect(p)
    \/ UpdateVolunteerUpdate(p)
    \/ DeleteVolunteerSelect(p)
    \/ DeleteVolunteerDelete(p)
    \/ StorageFail(p)

SpecVol == InitVol /\ [][NextVol]_vars

\* the statements of the handlers behind the paged listings
PagesStep(p) ==
  \/ CreateSelectDonor(p)
  \/ CreateSelectCampaign(p)
  \/ CreateInsert(p)
  \/ CreateAdjust(p)
  \/ GetDonationsSelect(p)
  \/ GetDonationsCount(p)
  \/ DeleteOrganizationSelect(p)
  \/ DeleteOrganizationDelete(p)
  \/ DeleteGrantSelect(p)
  \/ DeleteGrantDelete(p)
  \/ GetGrantsSelect(p)
  \/ GetGrantsCount(p)

InitPages == TablesInit /\ env = "pages"

\* a client that fills and prunes the tables and lists them page by page
NextPages ==
  \/ Quiescent /\ StartCreate(SeqProc)
  \/ Quiescent /\ StartGetDonations(SeqProc)
  \/ Quiescent /\ StartDeleteOrganization(SeqProc)
  \/ Quiescent /\ StartDeleteGrant(SeqProc)
  \/ Quiescent /\ StartGetGrants(SeqProc)
  \/ PagesStep(SeqProc)

SpecPages == InitPages /\ [][NextPages]_vars

(* ------------------------- derived quantities -------------------------- *)
\* ids of the Received donations linked to campaign c
ReceivedFor(ds, c) ==
  {i \in DOMAIN ds : ds[i].campaignId = c /\ ds[i].status = "Received"}

RECURSIVE SumOver(_, _)
SumOver(ds, ids) ==
  IF ids = {} THEN 0
  ELSE LET i == CHOOSE j \in ids : TRUE IN ds[i].amount + SumOver(ds, ids \ {i})

\* the sum recomputed from the donations table, in cents
ReceivedSum(ds, c) == SumOver(ds, ReceivedFor(ds, c))

Total(cs, c) == cs[c].currentAmountRaised

\* what a donation row counts for in campaign k's total
Contribution(row, k) ==
  IF row.campaignId = k /\ row.status = "Received" THEN row.amount ELSE 0

\* the sequential client's call and its outcome
TheCall == calls[SeqProc]
Returned(op) == TheCall.pc = "done" /\ TheCall.op = op /\ TheCall.result = "ok"
\* the targeted donation as it was when the call started
PreRow == pre.donations[TheCall.input.id]
TotalsUnchanged ==
  \A k \in DOMAIN campaigns : Total(campaigns, k) = Total(pre.campaigns, k)

(* ------------------------------ claims --------------------------------- *)
\* C1: in every state, the intermediate states between the storage
\* statements of one operation included, every campaign's
\* currentAmountRaised equals the sum of the amounts of the Received
\* donations linked to it.
C1_TotalAlwaysEqualsReceivedSum ==
  \A c \in DOMAIN campaigns : Total(campaigns, c) = ReceivedSum(donations, c)

\* C2: after any sequence of create/update/delete calls, each run to
\* completion (success or failure) before the next starts, from totals 0
\* and no donations, every stored total equals the recomputed sum.
C2_TotalEqualsReceivedSumBetweenCalls ==
  Quiescent =>
    \A c \in DOMAIN campaigns : Total(campaigns, c) = ReceivedSum(donations, c)

\* C3: a call that ends in a storage error leaves the stored state as it was
\* before the call (full rollback).
C3_FailedCallIsUnapplied ==
  (TheCall.pc = "done" /\ TheCall.result = "StorageError") =>
    (donations = pre.donations /\ campaigns = pre.campaigns)

\* C4: once two or more concurrent calls on pairwise different donations have
\* all completed, every campaign's total equals its value before the calls
\* plus the calls' own deltas (what their donations count for afterwards minus
\* what they counted for before): no increment or decrement is lost.
C4_NoLostAdjustment ==
  (Quiescent /\ distinct /\ ~faulted) =>
    \A c \in DOMAIN campaigns :
      Cardinality(adjusters[c]) >= 2 =>
        Total(campaigns, c) - Total(pre.campaigns, c)
          = ReceivedSum(donations, c) - ReceivedSum(pre.donations, c)

\* C5: a successful createDonation with campaign C and status Received
\* raises C's total by exactly the (stored) amount of the donation and leaves
\* every other campaign's total unchanged.
C5_CreateReceivedAddsAmount ==
  (Returned("create") /\ Truthy(TheCall.input.campaignId)
     /\ TheCall.input.status = "Received") =>
    \A k \in DOMAIN campaigns :
      Total(campaigns, k) =
        Total(pre.campaigns, k)
          + (IF k = TheCall.input.campaignId
               THEN donations[TheCall.newId].amount ELSE 0)

\* C6: a successful createDonation with a null campaign or a status other
\* than Received leaves every campaign's total unchanged.
C6_CreateNotReceivedLeavesTotals ==
  (Returned("create")
     /\ (TheCall.input.campaignId = Null \/ TheCall.input.status # "Received")) =>
    TotalsUnchanged

C6_Witness ==
  /\ Returned("create")
  /\ TheCall.input.campaignId = 1
  /\ TheCall.input.status = "Pledged"
  /\ TheCall.newId \in DOMAIN donations

\* C7: a successful updateDonation, run alone, changes each campaign K's total
\* by (new amount if new campaign = K and new status = Received, else 0) minus
\* (old amount if old campaign = K and old status = Received, else 0), each
\* new value being the patched one when its key is present and the prior one
\* otherwise (amounts as stored).
C7_ExpectedRow ==
  [PreRow EXCEPT
     !.campaignId = IF TheCall.input.campaignId # Undefined
                      THEN TheCall.input.campaignId ELSE @,
     !.amount = IF TheCall.input.amount # Undefined
                  THEN ToNumeric2(TheCall.input.amount) ELSE @,
     !.status = IF TheCall.input.status # NoStatus
                  THEN TheCall.input.status ELSE @]

\* C7: the total of every campaign moves by the new contribution of the
\* updated donation minus its old contribution.
C7_UpdateDelta ==
  Returned("update") =>
    \A k \in DOMAIN campaigns :
      Total(campaigns, k) - Total(pre.campaigns, k)
        = Contribution(C7_ExpectedRow, k) - Contribution(PreRow, k)

\* C8: an updateDonation whose patch has only the status key, on a donation
\* linked to campaign C, lowers C's total by the donation's amount when the
\* status leaves Received, raises it by the amount when the status becomes
\* Received, and leaves it unchanged when neither status is Received.
C8_StatusOnly ==
  /\ Returned("update")
  /\ TheCall.input.status # NoStatus
  /\ TheCall.input.donorId = Undefined
  /\ TheCall.input.campaignId = Undefined
  /\ TheCall.input.amount = Undefined
  /\ Truthy(PreRow.campaignId)

\* C8: a status-only patch moves the linked campaign's total by the stored
\* amount when the status leaves or enters Received, and by 0 otherwise.
C8_StatusFlipMovesAmount ==
  C8_StatusOnly =>
    LET c == PreRow.campaignId
        delta == Total(campaigns, c) - Total(pre.campaigns, c)
        old == PreRow.status
        new == TheCall.input.status
    IN /\ (old = "Received" /\ new # "Received") => delta = -PreRow.amount
       /\ (old # "Received" /\ new = "Received") => delta = PreRow.amount
       /\ (old # "Received" /\ new # "Received") => delta = 0

C8_Witness ==
  /\ C8_StatusOnly
  /\ PreRow.status = "Received"
  /\ TheCall.input.status = "Cancelled"
  /\ Total(pre.campaigns, PreRow.campaignId) > 0

\* C9: an updateDonation that moves a Received donation from campaign C1 to
\* campaign C2 or to null, status and amount unchanged, lowers C1's total by
\* the donation's amount and, for C2, raises C2's total by the same amount; a
\* patch without the campaignId key keeps the donation linked to C1.
C9_LinkOnly ==
  /\ Returned("update")
  /\ PreRow.status = "Received"
  /\ Truthy(PreRow.campaignId)
  /\ TheCall.input.status \in {NoStatus, "Received"}
  /\ TheCall.input.amount \in {Undefined, AmountToString(PreRow.amount)}

\* C9: relinking a Received donation takes its amount off the old campaign
\* and puts it on the new one; an omitted campaignId key keeps the link.
C9_CampaignMoveMovesAmount ==
  C9_LinkOnly =>
    LET c1 == PreRow.campaignId
        to == TheCall.input.campaignId
    IN /\ (to # Undefined /\ to # c1) =>
            Total(campaigns, c1) = Total(pre.campaigns, c1) - PreRow.amount
       /\ (Truthy(to) /\ to # c1) =>
            Total(campaigns, to) = Total(pre.campaigns, to) + PreRow.amount
       /\ (to = Undefined) => donations[TheCall.input.id].campaignId = c1

C9_Witness ==
  /\ C9_LinkOnly
  /\ PreRow.campaignId = 1
  /\ TheCall.input.campaignId = 2
  /\ PreRow.amount > 0

\* C10: a successful deleteDonation removes the row; for a Received donation
\* of amount A linked to campaign C it lowers C's total by exactly A, and for
\* any other donation it leaves every campaign's total unchanged.
C10_DeleteReversesEffect ==
  Returned("delete") =>
    /\ TheCall.input.id \notin DOMAIN donations
    /\ \A k \in DOMAIN campaigns :
         Total(campaigns, k) = Total(pre.campaigns, k) - Contribution(PreRow, k)

C10_Witness ==
  /\ Returned("delete")
  /\ PreRow.status = "Received"
  /\ PreRow.campaignId = 1
  /\ PreRow.amount > 0

\* the sequential client's call has ended, successfully or not
Ended(op) == TheCall.pc = "done" /\ TheCall.op = op
\* the stored tables are as they were when the call started
Unapplied == donations = pre.donations /\ campaigns = pre.campaigns
\* the ids of the request resolve under the caller's tenant
DonorResolves(input) == SelectDonor(input.donorId, input.tenantId)
CampaignResolved(cs, input) ==
  input.campaignId \in DOMAIN cs /\ cs[input.campaignId].tenantId = input.tenantId
\* a donation with the request's id was stored under the caller's tenant
\* when the call started
DonationResolved(input) ==
  input.id \in DOMAIN pre.donations
    /\ pre.donations[input.id].tenantId = input.tenantId

\* C11: createDonation fails with a donor-not-found error when donorId does
\* not resolve to a donor of input.tenantId, and with a campaign-not-found
\* error when a non-null campaignId does not resolve to a campaign of that
\* tenant (a failing storage statement aside); in each case no donation row
\* is written and no campaign total changes.
C11_CreateRejectsUnresolvedIds ==
  (Ended("create") /\ CreateDonationInputValid(TheCall.input)) =>
    /\ ~DonorResolves(TheCall.input) =>
         (TheCall.result \in {"DonorNotFound", "StorageError"} /\ Unapplied)
    /\ (TheCall.input.campaignId # Null
          /\ ~CampaignResolved(pre.campaigns, TheCall.input)) =>
         (TheCall.result \in {"DonorNotFound", "CampaignNotFound", "StorageError"}
            /\ Unapplied)

\* C12: updateDonation with an id under which the caller's tenant stores no
\* donation (absent, or another tenant's) fails with a donation-not-found
\* error (a failing select aside) and leaves every donation row and every
\* campaign total unchanged.
C12_UpdateUnknownDonationRejected ==
  (Ended("update") /\ UpdateDonationInputValid(TheCall.input)
     /\ ~DonationResolved(TheCall.input)) =>
    (TheCall.result \in {"DonationNotFound", "StorageError"} /\ Unapplied)

C12_Witness ==
  /\ Ended("update")
  /\ TheCall.result = "DonationNotFound"
  /\ TheCall.input.id \in DOMAIN donations
  /\ donations[TheCall.input.id].tenantId # TheCall.input.tenantId
  /\ TheCall.input.status = "Cancelled"

\* C13: updateDonation whose patch has a donorId that does not resolve to a
\* donor of the caller's tenant, or a non-null campaignId that does not
\* resolve to a campaign of the caller's tenant, fails with the not-found
\* error (a failing storage statement aside) and leaves the donation row and
\* every campaign total unchanged.
C13_UpdateRejectsUnresolvedIds ==
  (Ended("update") /\ UpdateDonationInputValid(TheCall.input)
     /\ DonationResolved(TheCall.input)) =>
    /\ (TheCall.input.donorId # Undefined /\ ~DonorResolves(TheCall.input)) =>
         (TheCall.result \in {"DonorNotFound", "StorageError"} /\ Unapplied)
    /\ (TheCall.input.campaignId \notin {Undefined, Null}
          /\ ~CampaignResolved(pre.campaigns, TheCall.input)) =>
         (TheCall.result \in {"DonorNotFound", "CampaignNotFound", "StorageError"}
            /\ Unapplied)

\* C14: deleteDonation with an id under which the caller's tenant stores no
\* donation fails with a donation-not-found error (a failing select aside),
\* deletes no row and leaves every campaign total unchanged.
C14_DeleteUnknownDonationRejected ==
  (Ended("delete") /\ ~DonationResolved(TheCall.input)) =>
    (TheCall.result \in {"DonationNotFound", "StorageError"} /\ Unapplied)

C14_Witness ==
  /\ Ended("delete")
  /\ TheCall.result = "DonationNotFound"
  /\ TheCall.input.id \in DOMAIN donations
  /\ donations[TheCall.input.id].tenantId # TheCall.input.tenantId
  /\ donations[TheCall.input.id].status = "Received"

\* the rows of a table that a step adds, removes or changes
Written(old, new) ==
  {i \in DOMAIN old \cup DOMAIN new :
     i \notin DOMAIN old \/ i \notin DOMAIN new \/ old[i] # new[i]}
RowTenant(old, new, i) ==
  IF i \in DOMAIN old THEN old[i].tenantId ELSE new[i].tenantId

\* C15: no step of a createDonation, updateDonation or deleteDonation call
\* made with tenant id T, in any interleaving and whatever the call's
\* outcome, adds, removes or changes a donation row or a campaign row of
\* another tenant.
C15_NoCrossTenantWrite ==
  [][\A p \in Procs :
       (calls'[p] # calls[p] /\ calls'[p].op \in {"create", "update", "delete"}) =>
         /\ \A i \in Written(donations, donations') :
              RowTenant(donations, donations', i) = calls'[p].input.tenantId
         /\ \A c \in Written(campaigns, campaigns') :
              RowTenant(campaigns, campaigns', c) = calls'[p].input.tenantId]_vars

C15_Witness ==
  \E p, q \in Procs :
    /\ calls[p].op = "create" /\ calls[p].input.tenantId = "T1"
    /\ calls[p].input.campaignId = 3 /\ calls[p].result = "CampaignNotFound"
    /\ calls[q].op = "create" /\ calls[q].input.tenantId = "T2"
    /\ calls[q].input.campaignId = 3 /\ calls[q].result = "ok"
    /\ 3 \in DOMAIN campaigns /\ Total(campaigns, 3) > 0

\* C16: a completed call of an operation other than donation create, update
\* and delete leaves the currentAmountRaised of every existing campaign as
\* it was; updateCampaign cannot set it.
C16_OnlyDonationsMoveTotals ==
  (TheCall.pc = "done" /\ TheCall.op \notin {"create", "update", "delete"}) =>
    \A c \in DOMAIN campaigns \cap DOMAIN pre.campaigns :
      Total(campaigns, c) = Total(pre.campaigns, c)

\* C17: every stored donation's donorId identifies a donor of the donation's
\* tenant, and its non-null campaignId identifies a stored campaign of the
\* donation's tenant.
C17_ReferencesResolve ==
  \A i \in DOMAIN donations :
    /\ SelectDonor(donations[i].donorId, donations[i].tenantId)
    /\ donations[i].campaignId # Null =>
         SelectCampaign(donations[i].campaignId, donations[i].tenantId)

\* C18: every campaign's currentAmountRaised is at least 0.
C18_TotalsNonNegative ==
  \A c \in DOMAIN campaigns : Total(campaigns, c) >= 0

\* C19: a donation create or update request with a non-positive amount ends
\* as a validation error without a storage statement: no donation row is
\* written or changed and no campaign total changes.
C19_NonPositiveAmountRejected ==
  (TheCall.op \in {"create", "update"} /\ TheCall.input.amount # Undefined
     /\ TheCall.input.amount <= 0) =>
    (TheCall.pc = "done" /\ TheCall.result = "ValidationError" /\ Unapplied)

C19_Witness ==
  /\ TheCall.op = "update"
  /\ TheCall.input.amount = 0
  /\ TheCall.result = "ValidationError"
  /\ DonationResolved(TheCall.input)
  /\ pre.donations[TheCall.input.id].status = "Received"

\* C20: getDonationById(id, T) returns a donation only when a donation with
\* that id and tenant id T is stored, and that donation; it returns null
\* (a failing select aside) when none is; getDonations with tenant id T
\* returns only stored donations whose tenant id is T.
C20_ReadsAreTenantScoped ==
  /\ Ended("getDonationById") =>
       /\ TheCall.result = "ok" =>
            /\ SelectDonation(TheCall.input.id, TheCall.input.tenantId)
            /\ TheCall.rows = <<Returned_Row(TheCall.input.id)>>
       /\ ~SelectDonation(TheCall.input.id, TheCall.input.tenantId) =>
            (TheCall.result \in {"null", "StorageError"} /\ TheCall.rows = <<>>)
  /\ TheCall.op = "getDonations" =>
       \A k \in DOMAIN TheCall.rows :
         /\ TheCall.rows[k].row.tenantId = TheCall.input.tenantId
         /\ SelectDonation(TheCall.rows[k].id, TheCall.input.tenantId)
         /\ TheCall.rows[k] = Returned_Row(TheCall.rows[k].id)

C20_Witness ==
  /\ Ended("getDonations")
  /\ TheCall.result = "ok"
  /\ TheCall.input.tenantId = "T2"
  /\ Len(TheCall.rows) = 1
  /\ \E i \in DOMAIN donations :
       donations[i].tenantId = "T1" /\ JoinsDonor(donations[i])

\* the campaign the request names was stored under the caller's tenant when
\* the call started
CampaignOwned(input) ==
  input.id \in DOMAIN pre.campaigns
    /\ pre.campaigns[input.id].tenantId = input.tenantId

TargetStored == TheCall.input.id \in DOMAIN pre.donations

\* C24: in deleteDonation of a Received donation linked to campaign C the
\* subtraction from C's total takes effect before the row is removed: in no
\* state of the call is the row already deleted while C's total still
\* includes the donation's amount.
C24_DeleteSubtractsBeforeRemoving ==
  (/\ TheCall.op = "delete"
   /\ TheCall.result # "StorageError"
   /\ TargetStored
   /\ TheCall.input.id \notin DOMAIN donations) =>
     \A c \in DOMAIN campaigns :
       (PreRow.status = "Received" /\ PreRow.campaignId = c) =>
         Total(campaigns, c) = Total(pre.campaigns, c) - PreRow.amount

\* the stored totals agreed with the recomputed sums when the batch started
PreReconciled ==
  \A c \in DOMAIN pre.campaigns :
    Total(pre.campaigns, c) = ReceivedSum(pre.donations, c)

\* the two slots hold two completed calls, each an updateDonation or a
\* deleteDonation, that ran concurrently on one stored donation
SameDonationRace ==
  /\ Quiescent /\ batch = 2 /\ ~distinct /\ ~faulted
  /\ \A p \in Procs :
       /\ calls[p].op \in {"update", "delete"}
       /\ calls[p].input.id \in DOMAIN pre.donations
  /\ \A p, q \in Procs : calls[p].input.id = calls[q].input.id

\* C25: after two concurrent calls, each an updateDonation or a
\* deleteDonation, on the same donation have both completed, in any
\* interleaving of their statements, every campaign's total equals the sum
\* of the Received donations then linked to it.
C25_SameDonationRaceReconciles ==
  (SameDonationRace /\ PreReconciled) =>
    \A c \in DOMAIN campaigns : Total(campaigns, c) = ReceivedSum(donations, c)

\* stored total minus recomputed sum, in cents
Discrepancy(cs, ds, c) == Total(cs, c) - ReceivedSum(ds, c)

\* C26: a createDonation, updateDonation or deleteDonation call that runs
\* alone to completion leaves, for every campaign, the difference between
\* the stored total and the recomputed sum as it was, so a discrepancy
\* written by updateCampaign is neither corrected nor enlarged.
C26_DonationCallKeepsDiscrepancy ==
  (/\ TheCall.pc = "done"
   /\ TheCall.op \in {"create", "update", "delete"}
   /\ TheCall.result # "StorageError") =>
     \A c \in DOMAIN campaigns \cap DOMAIN pre.campaigns :
       Discrepancy(campaigns, donations, c)
         = Discrepancy(pre.campaigns, pre.donations, c)

\* the patch carries none of amount, status and campaignId
NoTotalsKey(input) ==
  /\ input.amount = Undefined
  /\ input.status = NoStatus
  /\ input.campaignId = Undefined

\* C27: a successful updateDonation whose patch has none of amount, status
\* and campaignId leaves every campaign's total as it was before the call.
C27_OtherKeysLeaveTotals ==
  (Returned("update") /\ NoTotalsKey(TheCall.input)) => TotalsUnchanged

C27_Witness ==
  /\ Returned("update")
  /\ NoTotalsKey(TheCall.input)
  /\ TheCall.input.donorId = 1
  /\ PreRow.status = "Received"
  /\ PreRow.campaignId = 1
  /\ Total(campaigns, 1) > 0

\* C28: applying the same updateDonation patch twice in succession leaves
\* the donation rows and every campaign's total as applying it once did: the
\* second, successful, application changes nothing.
C28_RepeatedPatchChangesNothing ==
  (Returned("update") /\ TheCall.repeat) => Unapplied

\* the update and delete handlers of campaigns, volunteers and custom data
CampaignWrites == {"updateCampaign", "deleteCampaign"}
VolunteerWrites == {"updateVolunteer", "deleteVolunteer"}
CustomDataWrites == {"updateCustomData", "deleteCustomData"}

\* the table the sequential client's call targets: its rows when the call
\* started, and its rows now
TargetBefore ==
  IF TheCall.op \in CampaignWrites THEN pre.campaigns
  ELSE IF TheCall.op \in VolunteerWrites THEN pre.volunteers
  ELSE pre.customData
TargetNow ==
  IF TheCall.op \in CampaignWrites THEN campaigns
  ELSE IF TheCall.op \in VolunteerWrites THEN volunteers
  ELSE customData

\* the call's id named a row of the caller's tenant when the call started
TargetOwned ==
  /\ TheCall.input.id \in DOMAIN TargetBefore
  /\ TargetBefore[TheCall.input.id].tenantId = TheCall.input.tenantId

\* every row stored when the call started is still read, with the same
\* values, by a getById of its owning tenant
StillReadable ==
  /\ \A c \in DOMAIN pre.campaigns :
       SelectCampaign(c, pre.campaigns[c].tenantId)
         /\ campaigns[c] = pre.campaigns[c]
  /\ \A v \in DOMAIN pre.volunteers :
       SelectVolunteer(v, pre.volunteers[v].tenantId)
         /\ volunteers[v] = pre.volunteers[v]
  /\ \A d \in DOMAIN pre.customData :
       SelectCustomData(d, pre.customData[d].tenantId)
         /\ customData[d] = pre.customData[d]

\* C22: an update or delete of a campaign, a volunteer or a custom data row
\* whose id names no row of the caller's tenant (no row at all, or a row of
\* another tenant) fails with an error and leaves the targeted row as it
\* was, still readable by its owner.
C22_ForeignIdRejected ==
  (/\ TheCall.pc = "done"
   /\ TheCall.op \in CampaignWrites \cup VolunteerWrites \cup CustomDataWrites
   /\ ~TargetOwned) =>
     /\ TheCall.result # "ok"
     /\ TargetNow = TargetBefore
     /\ StillReadable

C22_Witness ==
  /\ TheCall.pc = "done"
  /\ TheCall.op = "updateVolunteer"
  /\ TheCall.input.id = 1
  /\ TheCall.input.tenantId = "T2"
  /\ TheCall.input.name = "ann"
  /\ TheCall.result = "VolunteerNotFound"
  /\ volunteers[1].tenantId = "T1"

\* every row but row i is as it was, and no row was added or removed
OtherRowsKept(rows, old, i) ==
  /\ DOMAIN rows = DOMAIN old
  /\ \A r \in DOMAIN rows \ {i} : rows[r] = old[r]

\* C23: a successful updateCampaign, updateVolunteer or updateCustomData
\* changes in the targeted row only the fields whose key is in the patch;
\* the row's other fields, the table's other rows and the other tables keep
\* their values.
C23_UpdateTouchesOnlyPatchedFields ==
  LET in == TheCall.input
      i == TheCall.input.id
  IN
  /\ Returned("updateCampaign") =>
       /\ OtherRowsKept(campaigns, pre.campaigns, i)
       /\ campaigns[i].tenantId = pre.campaigns[i].tenantId
       /\ in.name = NoText => campaigns[i].name = pre.campaigns[i].name
       /\ in.currentAmountRaised = Undefined =>
            campaigns[i].currentAmountRaised = pre.campaigns[i].currentAmountRaised
       /\ volunteers = pre.volunteers /\ customData = pre.customData
  /\ Returned("updateVolunteer") =>
       /\ OtherRowsKept(volunteers, pre.volunteers, i)
       /\ volunteers[i].tenantId = pre.volunteers[i].tenantId
       /\ in.name = NoText => volunteers[i].name = pre.volunteers[i].name
       /\ in.email = NoText => volunteers[i].email = pre.volunteers[i].email
       /\ campaigns = pre.campaigns /\ customData = pre.customData
  /\ Returned("updateCustomData") =>
       /\ OtherRowsKept(customData, pre.customData, i)
       /\ customData[i].tenantId = pre.customData[i].tenantId
       /\ in.dataType = NoText => customData[i].dataType = pre.customData[i].dataType
       /\ in.name = NoText => customData[i].name = pre.customData[i].name
       /\ campaigns = pre.campaigns /\ volunteers = pre.volunteers

C23_Witness ==
  /\ Returned("updateCustomData")
  /\ TheCall.input.id = 1
  /\ TheCall.input.dataType = "survey"
  /\ TheCall.input.name = NoText
  /\ customData[1].dataType = "survey"
  /\ customData[1].name = pre.customData[1].name
  /\ pre.customData[1].dataType # "survey"

\* the batch is two completed updateVolunteer calls that ran concurrently
\* on volunteer v, a row of the tenant of both callers when they started
VolunteerRace(v) ==
  /\ Quiescent /\ batch = 2 /\ ~faulted
  /\ v \in DOMAIN pre.volunteers
  /\ \A p \in Procs :
       /\ calls[p].op = "updateVolunteer"
       /\ calls[p].input.id = v
       /\ calls[p].input.tenantId = pre.volunteers[v].tenantId

\* C29: two concurrent updateVolunteer calls on the same existing volunteer
\* both succeed in every interleaving of their statements, and afterwards
\* each field that either call patched holds the value one of them wrote.
C29_ConcurrentVolunteerUpdates ==
  \A v \in DOMAIN VolunteerTenants :
    VolunteerRace(v) =>
      /\ \A p \in Procs : calls[p].result = "ok"
      /\ \A f \in {"name", "email"} :
           (\E p \in Procs : calls[p].input[f] # NoText) =>
             \E p \in Procs : /\ calls[p].input[f] # NoText
                               /\ volunteers[v][f] = calls[p].input[f]

C29_Witness ==
  /\ VolunteerRace(1)
  /\ calls[1].input.name = "ann" /\ calls[1].input.email = NoText
  /\ calls[2].input.name = "bob" /\ calls[2].input.email = "a@x"
  /\ volunteers[1].name = "ann"
  /\ volunteers[1].email = "a@x"

\* page sizes a listing is read with
PageLimits == {1, 2}

\* rows obtained from pages 1..k of a listing
RECURSIVE PagedRows(_, _, _)
PagedRows(order, limit, k) ==
  IF k = 0 THEN 0
  ELSE Len(Page(order, k, limit)) + PagedRows(order, limit, k - 1)

\* all the pages of a listing hold `total` rows, each page at most `limit`
PagesAgree(order, limit, total) ==
  /\ PagedRows(order, limit, Len(order) + 1) = total
  /\ \A k \in 1..(Len(order) + 1) : Len(Page(order, k, limit)) <= limit

\* C30: in every state, for getGrants and getDonations with a fixed tenant
\* and search term, the reported total equals the number of rows of all the
\* pages together, and no page holds more than limit rows.
C30_TotalCountsPagedRows ==
  \A t \in Tenants, limit \in PageLimits :
    /\ \A term \in PagesEnv.searches :
         LET in == [NoInput EXCEPT !.tenantId = t, !.search = term] IN
         \A order \in RowOrders(GrantResults(in)) :
           PagesAgree(order, limit, GrantCount(in))
    /\ \A order \in Orderings(Matching(t), NoStatus, "desc") :
         PagesAgree(order, limit, Cardinality(Matching(t)))
====
